---------------------------- MODULE Spec2Model ----------------------------
(***************************************************************************)
(* Static extraction of the exported `config` object of a source module   *)
(* (next-core/src/util.rs): parse_config_from_source locates the export,   *)
(* parse_config_from_js_value decodes its abstract value into a            *)
(* NextSourceConfig and emits NextSourceConfigParsingIssue's.              *)
(***************************************************************************)
EXTENDS Integers, Sequences, FiniteSets, TLC

VARIABLES
    asset,      \* ident -> the module asset handed to parse_config_from_source
    pc,         \* ident -> position of the call: start, scan, decode, items, done
    item_idx,   \* ident -> index into module.body (outer for loop, line 182)
    decl_idx,   \* ident -> index into decl.decls (inner for loop, line 188)
    value,      \* ident -> the JsValue given to parse_config_from_js_value
    part_idx,   \* ident -> index into parts (for loop, line 234)
    elem_idx,   \* ident -> index into items of a matcher array (line 283)
    matchers,   \* ident -> the local `matchers` vector (line 269)
    config,     \* ident -> the local `config` accumulator (line 223)
    result,     \* ident -> Option of the returned NextSourceConfig
    issues      \* the emitted issues, in emission order

vars == <<asset, pc, item_idx, decl_idx, value, part_idx, elem_idx, matchers,
          config, result, issues>>

-----------------------------------------------------------------------------
(* Bounds of the explored inputs *)

MaxParts == 2      \* longest object literal (number of ObjectPart's)
MaxElems == 2      \* longest matcher array
MaxBody == 2       \* longest module body (top-level items)

-----------------------------------------------------------------------------
(* Option<T> *)

None == [some |-> FALSE]

Some(x) == [some |-> TRUE, val |-> x]

-----------------------------------------------------------------------------
(* JsValue, ConstantValue and ObjectPart, as the decoder matches on them *)

Str(s) == [tag |-> "Constant", const |-> [kind |-> "Str", str |-> s]]

Num(n) == [tag |-> "Constant", const |-> [kind |-> "Num", num |-> n]]

Null == [tag |-> "Constant", const |-> [kind |-> "Null"]]

Array(items) == [tag |-> "Array", items |-> items]

Object(parts) == [tag |-> "Object", parts |-> parts]

Unknown == [tag |-> "Unknown"]

KeyValue(k, v) == [part |-> "KeyValue", key |-> k, value |-> v]

Spread(v) == [part |-> "Spread", value |-> v]

\* ConstantValue::as_str: Some for a Str constant only
ConstAsStr(c) == IF c.kind = "Str" THEN Some(c.str) ELSE None

\* JsValue::as_str: Some for Constant(Str) only
AsStr(v) == IF v.tag = "Constant" THEN ConstAsStr(v.const) ELSE None

-----------------------------------------------------------------------------
(* NextRuntime, NextSourceConfig, NextSourceConfigParsingIssue *)

NextRuntime == {"NodeJs", "Edge"}

DefaultConfig == [runtime |-> "NodeJs", matcher |-> None]

MsgInitializer == "The exported config object must contain an variable initializer."

MsgSpread == "Spread properties are not supported in the config export."

MsgRuntimeValue == "The runtime property must be either \"nodejs\" or \"edge\"."

MsgRuntimeConst == "The runtime property must be a constant string."

MsgMatcher == "The matcher property must be a string or array of strings"

MsgKey == "The exported config object must not contain non-constant strings."

MsgObject == "The exported config object must be a valid object literal."

\* the issue built by parse_config_from_source for a missing initializer
InitializerIssue(id) == [ident |-> id, detail |-> MsgInitializer, got |-> None]

\* invalid_config naming one fixed module whatever module is decoded
InvalidConfigFixedIdent(id, detail, v) == [ident |-> 1, detail |-> detail, got |-> Some(v)]

\* the closure invalid_config: the issue carries the detail and the explained value
InvalidConfig(id, detail, v) == [ident |-> id, detail |-> detail, got |-> Some(v)]


-----------------------------------------------------------------------------
(* The module asset: whether it downcasts to an EcmascriptModuleAsset, what  *)
(* its parse gave, and the top-level items of the program                    *)

NotEcmascript == [ecmascript |-> FALSE, parse |-> "None", body |-> <<>>]

Unparseable == [ecmascript |-> TRUE, parse |-> "Unparseable", body |-> <<>>]

ScriptAsset == [ecmascript |-> TRUE, parse |-> "Script", body |-> <<>>]

ModuleAsset(body) == [ecmascript |-> TRUE, parse |-> "Module", body |-> body]

\* a VarDeclarator: its binding pattern and its optional initializer; an
\* initializer expression is given as the JsValue eval_context.eval yields for it
Ident(sym) == [pat |-> "Ident", sym |-> sym]

ObjectPat == [pat |-> "Object"]

Declarator(name, init) == [name |-> name, init |-> init]

\* a ModuleItem: `export var ...`, a plain `var ...` statement, or another
\* export declaration (function, class)
ExportVar(decls) == [item |-> "ExportVar", decls |-> decls]

LocalVar(decls) == [item |-> "Var", decls |-> decls]

ExportFn(sym) == [item |-> "ExportFn", sym |-> sym]

\* AsExportedVar taking a variable statement that is not exported as well
AsAnyVar(item) == IF item.item \in {"ExportVar", "Var"} THEN Some(item.decls) ELSE None

\* item.as_module_decl().and_then(as_export_decl).and_then(decl.as_var())
AsExportedVar(item) == IF item.item = "ExportVar" THEN Some(item.decls) ELSE None

\* decl.name.as_ident().map(|ident| &*ident.sym == "config").unwrap_or_default()
IsConfigIdent(decl) == IF decl.name.pat = "Ident" THEN decl.name.sym = "config" ELSE FALSE

-----------------------------------------------------------------------------
(* The decoder's arms, as functions of the accumulator *)

\* RuntimeMatch without the "experimental-edge" alias
RuntimeMatchNoAlias(id, cfg, runtime, v) ==
    CASE runtime = "edge" ->
            [config |-> [cfg EXCEPT !.runtime = "Edge"], emit |-> <<>>]
      [] runtime = "nodejs" ->
            [config |-> [cfg EXCEPT !.runtime = "NodeJs"], emit |-> <<>>]
      [] OTHER ->
            [config |-> cfg, emit |-> <<InvalidConfig(id, MsgRuntimeValue, v)>>]

\* the match on the runtime string (lines 245-259)
RuntimeMatch(id, cfg, runtime, v) ==
    CASE runtime \in {"edge", "experimental-edge"} ->
            [config |-> [cfg EXCEPT !.runtime = "Edge"], emit |-> <<>>]
      [] runtime = "nodejs" ->
            [config |-> [cfg EXCEPT !.runtime = "NodeJs"], emit |-> <<>>]
      [] OTHER ->
            [config |-> cfg, emit |-> <<InvalidConfig(id, MsgRuntimeValue, v)>>]

\* RuntimeArm starting the record over on a value that is not a constant
RuntimeArmResets(id, cfg, v) ==
    IF v.tag = "Constant"
    THEN IF ConstAsStr(v.const).some
         THEN RuntimeMatch(id, cfg, ConstAsStr(v.const).val, v)
         ELSE [config |-> cfg, emit |-> <<>>]
    ELSE [config |-> DefaultConfig, emit |-> <<InvalidConfig(id, MsgRuntimeConst, v)>>]

\* `if key == "runtime"` (lines 242-267)
RuntimeArm(id, cfg, v) ==
    IF v.tag = "Constant"
    THEN IF ConstAsStr(v.const).some
         THEN RuntimeMatch(id, cfg, ConstAsStr(v.const).val, v)
         ELSE [config |-> cfg, emit |-> <<>>]
    ELSE [config |-> cfg, emit |-> <<InvalidConfig(id, MsgRuntimeConst, v)>>]

\* `if key == "matcher"` for a value that is not an Array (lines 269-281,
\* 295-300): the local matchers vector and the issue of the match arm
MatcherScalar(id, v) ==
    IF v.tag = "Constant"
    THEN IF ConstAsStr(v.const).some
         THEN [matchers |-> <<ConstAsStr(v.const).val>>, emit |-> <<>>]
         ELSE [matchers |-> <<>>, emit |-> <<InvalidConfig(id, MsgMatcher, v)>>]
    ELSE [matchers |-> <<>>, emit |-> <<InvalidConfig(id, MsgMatcher, v)>>]

\* MatcherItem inserting at the front of the vector
MatcherItemFront(id, ms, item, v) ==
    IF AsStr(item).some
    THEN [matchers |-> <<AsStr(item).val>> \o ms, emit |-> <<>>]
    ELSE [matchers |-> ms, emit |-> <<InvalidConfig(id, MsgMatcher, v)>>]

\* one iteration of `for item in items` (lines 283-293); v is the whole array
MatcherItem(id, ms, item, v) ==
    IF AsStr(item).some
    THEN [matchers |-> Append(ms, AsStr(item).val), emit |-> <<>>]
    ELSE [matchers |-> ms, emit |-> <<InvalidConfig(id, MsgMatcher, v)>>]

\* AssignMatcher keeping a list assigned earlier
AssignMatcherOnce(cfg, ms) ==
    IF cfg.matcher.some THEN cfg ELSE [cfg EXCEPT !.matcher = Some(ms)]

\* `config.matcher = Some(matchers)` (line 300)
AssignMatcher(cfg, ms) == [cfg EXCEPT !.matcher = Some(ms)]

-----------------------------------------------------------------------------
(* The explored inputs *)

RECURSIVE SeqsUpTo(_, _)
\* the sequences over S of length at most n
SeqsUpTo(S, n) ==
    IF n = 0 THEN {<<>>}
    ELSE LET shorter == SeqsUpTo(S, n - 1)
         IN shorter \cup {Append(q, x) : q \in shorter, x \in S}

ElemSet == {Str("/a"), Num(42)}

\* the arrays over ElemSet, and two arrays of distinct strings in both orders
ArraySet ==
    {Array(items) : items \in SeqsUpTo(ElemSet, MaxElems)}
    \cup {Array(<<Str("/a"), Str("/b")>>), Array(<<Str("/b"), Str("/a")>>)}

RuntimeValues ==
    {Str("edge"), Str("experimental-edge"), Str("nodejs"), Str("deno"),
     Num(42), Null, Unknown, Array(<<Str("edge")>>)}

MatcherValues == {Str("/a"), Num(42), Unknown, Object(<<>>)} \cup ArraySet

OtherValues == {Str("edge"), Array(<<Str("/a")>>)}

PartSet ==
    {KeyValue(Str("runtime"), v) : v \in RuntimeValues}
    \cup {KeyValue(Str("matcher"), v) : v \in MatcherValues}
    \cup {KeyValue(Str("regions"), v) : v \in OtherValues}
    \cup {KeyValue(k, Str("edge")) : k \in {Unknown, Num(42)}}
    \cup {Spread(Unknown)}

ObjectSet == {Object(parts) : parts \in SeqsUpTo(PartSet, MaxParts)}

\* the values a `config` initializer evaluates to
InitValues == ObjectSet \cup {Str("edge"), Num(42), Array(<<>>), Unknown}

EdgeObject == Object(<<KeyValue(Str("runtime"), Str("edge"))>>)

MatcherObject == Object(<<KeyValue(Str("matcher"), Str("/a"))>>)

\* the declarators of the modules with several declarations
DeclSet ==
    {Declarator(Ident("config"), None),
     Declarator(Ident("config"), Some(EdgeObject)),
     Declarator(Ident("config"), Some(MatcherObject)),
     Declarator(Ident("other"), Some(EdgeObject)),
     Declarator(ObjectPat, Some(EdgeObject))}

ConfigDecls == {d \in DeclSet : IsConfigIdent(d)}

ItemSet ==
    {ExportVar(<<d>>) : d \in DeclSet}
    \cup {ExportVar(<<d1, d2>>) : d1 \in ConfigDecls, d2 \in ConfigDecls}
    \cup {LocalVar(<<Declarator(Ident("config"), Some(EdgeObject))>>),
          ExportFn("config")}

AssetSet ==
    {NotEcmascript, Unparseable, ScriptAsset}
    \cup {ModuleAsset(body) : body \in SeqsUpTo(ItemSet, MaxBody)}
    \cup {ModuleAsset(<<ExportVar(<<Declarator(Ident("config"), Some(v))>>)>>) :
            v \in InitValues}

-----------------------------------------------------------------------------
(* parse_config_from_source *)

\* the identity of the module of a single call
Solo == {1}

Body(m) == asset[m].body

Init ==
    /\ asset \in [Solo -> AssetSet]
    /\ pc = [m \in Solo |-> "start"]
    /\ item_idx = [m \in Solo |-> 0]
    /\ decl_idx = [m \in Solo |-> 0]
    /\ value = [m \in Solo |-> None]
    /\ part_idx = [m \in Solo |-> 0]
    /\ elem_idx = [m \in Solo |-> 0]
    /\ matchers = [m \in Solo |-> <<>>]
    /\ config = [m \in Solo |-> DefaultConfig]
    /\ result = [m \in Solo |-> None]
    /\ issues = <<>>

\* `return Ok(cfg)`: the call ends with cfg as its value
Return(m, cfg) ==
    /\ pc' = [pc EXCEPT ![m] = "done"]
    /\ result' = [result EXCEPT ![m] = Some(cfg)]

\* lines 173-181 fail to match: not an EcmascriptModuleAsset, or the parse
\* result is not Ok with a Program::Module; falls to line 216
NotAModule(m) ==
    /\ pc[m] = "start"
    /\ ~(asset[m].ecmascript /\ asset[m].parse = "Module")
    /\ Return(m, DefaultConfig)
    /\ UNCHANGED <<asset, item_idx, decl_idx, value, part_idx, elem_idx,
                   matchers, config, issues>>

\* lines 173-182 match: the scan of module.body begins
BeginScan(m) ==
    /\ pc[m] = "start"
    /\ asset[m].ecmascript /\ asset[m].parse = "Module"
    /\ pc' = [pc EXCEPT ![m] = "scan"]
    /\ item_idx' = [item_idx EXCEPT ![m] = 1]
    /\ decl_idx' = [decl_idx EXCEPT ![m] = 1]
    /\ UNCHANGED <<asset, value, part_idx, elem_idx, matchers, config, result,
                   issues>>

\* line 183: the item is not an exported variable declaration
SkipItem(m) ==
    /\ pc[m] = "scan"
    /\ item_idx[m] <= Len(Body(m))
    /\ ~AsExportedVar(Body(m)[item_idx[m]]).some
    /\ item_idx' = [item_idx EXCEPT ![m] = @ + 1]
    /\ UNCHANGED <<asset, pc, decl_idx, value, part_idx, elem_idx, matchers,
                   config, result, issues>>

\* the declarator under the inner loop's cursor
CurrentDecl(m) == AsExportedVar(Body(m)[item_idx[m]]).val[decl_idx[m]]

AtDecl(m) ==
    /\ pc[m] = "scan"
    /\ item_idx[m] <= Len(Body(m))
    /\ AsExportedVar(Body(m)[item_idx[m]]).some
    /\ decl_idx[m] <= Len(AsExportedVar(Body(m)[item_idx[m]]).val)

\* line 188: the inner loop is exhausted, the outer loop takes the next item
EndDecls(m) ==
    /\ pc[m] = "scan"
    /\ item_idx[m] <= Len(Body(m))
    /\ AsExportedVar(Body(m)[item_idx[m]]).some
    /\ decl_idx[m] > Len(AsExportedVar(Body(m)[item_idx[m]]).val)
    /\ item_idx' = [item_idx EXCEPT ![m] = @ + 1]
    /\ decl_idx' = [decl_idx EXCEPT ![m] = 1]
    /\ UNCHANGED <<asset, pc, value, part_idx, elem_idx, matchers, config,
                   result, issues>>

\* lines 189-194: the declarator does not bind the identifier `config`
SkipDecl(m) ==
    /\ AtDecl(m)
    /\ ~IsConfigIdent(CurrentDecl(m))
    /\ decl_idx' = [decl_idx EXCEPT ![m] = @ + 1]
    /\ UNCHANGED <<asset, pc, item_idx, value, part_idx, elem_idx, matchers,
                   config, result, issues>>

\* MissingInitializer ending the scan with the default record
MissingInitializerReturns(m) ==
    /\ pc[m] = "scan"
    /\ item_idx[m] <= Len(Body(m))
    /\ AsExportedVar(Body(m)[item_idx[m]]).some
    /\ decl_idx[m] <= Len(AsExportedVar(Body(m)[item_idx[m]]).val)
    /\ IsConfigIdent(CurrentDecl(m))
    /\ ~CurrentDecl(m).init.some
    /\ issues' = Append(issues, InitializerIssue(m))
    /\ Return(m, DefaultConfig)
    /\ UNCHANGED <<asset, item_idx, decl_idx, value, part_idx, elem_idx,
                   matchers, config>>

\* lines 198-209: `config` without initializer: the issue is emitted and the
\* inner loop goes on
MissingInitializer(m) ==
    /\ AtDecl(m)
    /\ IsConfigIdent(CurrentDecl(m))
    /\ ~CurrentDecl(m).init.some
    /\ issues' = Append(issues, InitializerIssue(m))
    /\ decl_idx' = [decl_idx EXCEPT ![m] = @ + 1]
    /\ UNCHANGED <<asset, pc, item_idx, value, part_idx, elem_idx, matchers,
                   config, result>>

\* lines 195-197 and 223: `config` with initializer: its value is evaluated
\* and parse_config_from_js_value is entered with a default accumulator
EvalInit(m) ==
    /\ AtDecl(m)
    /\ IsConfigIdent(CurrentDecl(m))
    /\ CurrentDecl(m).init.some
    /\ value' = [value EXCEPT ![m] = Some(CurrentDecl(m).init.val)]
    /\ config' = [config EXCEPT ![m] = DefaultConfig]
    /\ part_idx' = [part_idx EXCEPT ![m] = 1]
    /\ pc' = [pc EXCEPT ![m] = "decode"]
    /\ UNCHANGED <<asset, item_idx, decl_idx, elem_idx, matchers, result, issues>>

\* line 216: the outer loop is exhausted without a return
NoConfigExport(m) ==
    /\ pc[m] = "scan"
    /\ item_idx[m] > Len(Body(m))
    /\ Return(m, DefaultConfig)
    /\ UNCHANGED <<asset, item_idx, decl_idx, value, part_idx, elem_idx,
                   matchers, config, issues>>

-----------------------------------------------------------------------------
(* parse_config_from_js_value *)

JsValueOf(m) == value[m].val

\* the ObjectPart under the cursor of `for part in parts`
CurrentPart(m) == JsValueOf(m).parts[part_idx[m]]

AtPart(m) ==
    /\ pc[m] = "decode"
    /\ JsValueOf(m).tag = "Object"
    /\ part_idx[m] <= Len(JsValueOf(m).parts)

AtKey(m, key) ==
    /\ AtPart(m)
    /\ CurrentPart(m).part = "KeyValue"
    /\ AsStr(CurrentPart(m).key) = Some(key)

NextPart(m) == part_idx' = [part_idx EXCEPT ![m] = @ + 1]

\* NotObject returning without an issue
NotObjectSilent(m) ==
    /\ pc[m] = "decode"
    /\ JsValueOf(m).tag # "Object"
    /\ Return(m, config[m])
    /\ UNCHANGED <<asset, item_idx, decl_idx, value, part_idx, elem_idx,
                   matchers, config, issues>>

\* lines 311-318: the value is not an Object
NotObject(m) ==
    /\ pc[m] = "decode"
    /\ JsValueOf(m).tag # "Object"
    /\ issues' = Append(issues, InvalidConfig(m, MsgObject, JsValueOf(m)))
    /\ Return(m, config[m])
    /\ UNCHANGED <<asset, item_idx, decl_idx, value, part_idx, elem_idx,
                   matchers, config>>

\* PartSpread skipping the part without an issue
PartSpreadSilent(m) ==
    /\ AtPart(m)
    /\ CurrentPart(m).part = "Spread"
    /\ NextPart(m)
    /\ UNCHANGED <<asset, pc, item_idx, decl_idx, value, elem_idx, matchers,
                   config, result, issues>>

\* lines 236-239: a spread part; the issue explains the whole object
PartSpread(m) ==
    /\ AtPart(m)
    /\ CurrentPart(m).part = "Spread"
    /\ issues' = Append(issues, InvalidConfig(m, MsgSpread, JsValueOf(m)))
    /\ NextPart(m)
    /\ UNCHANGED <<asset, pc, item_idx, decl_idx, value, elem_idx, matchers,
                   config, result>>

\* lines 241, 302-307: the key is not a constant string; the issue explains
\* the key
PartKeyNotStr(m) ==
    /\ AtPart(m)
    /\ CurrentPart(m).part = "KeyValue"
    /\ ~AsStr(CurrentPart(m).key).some
    /\ issues' = Append(issues, InvalidConfig(m, MsgKey, CurrentPart(m).key))
    /\ NextPart(m)
    /\ UNCHANGED <<asset, pc, item_idx, decl_idx, value, elem_idx, matchers,
                   config, result>>

\* lines 242-267: the key is "runtime"
PartRuntime(m) ==
    /\ AtKey(m, "runtime")
    /\ LET r == RuntimeArm(m, config[m], CurrentPart(m).value)
       IN /\ config' = [config EXCEPT ![m] = r.config]
          /\ issues' = issues \o r.emit
    /\ NextPart(m)
    /\ UNCHANGED <<asset, pc, item_idx, decl_idx, value, elem_idx, matchers,
                   result>>

\* lines 268-281, 295-300: the key is "matcher" and the value is not an Array
PartMatcherScalar(m) ==
    /\ AtKey(m, "matcher")
    /\ CurrentPart(m).value.tag # "Array"
    /\ LET r == MatcherScalar(m, CurrentPart(m).value)
       IN /\ config' = [config EXCEPT ![m] = AssignMatcher(@, r.matchers)]
          /\ issues' = issues \o r.emit
    /\ NextPart(m)
    /\ UNCHANGED <<asset, pc, item_idx, decl_idx, value, elem_idx, matchers,
                   result>>

\* lines 268-269, 282-283: the key is "matcher" and the value is an Array:
\* matchers starts empty and the loop over items begins
PartMatcherArray(m) ==
    /\ AtKey(m, "matcher")
    /\ CurrentPart(m).value.tag = "Array"
    /\ matchers' = [matchers EXCEPT ![m] = <<>>]
    /\ elem_idx' = [elem_idx EXCEPT ![m] = 1]
    /\ pc' = [pc EXCEPT ![m] = "items"]
    /\ UNCHANGED <<asset, item_idx, decl_idx, value, part_idx, config, result,
                   issues>>

\* lines 283-293: one item of the matcher array
ArrayItem(m) ==
    /\ pc[m] = "items"
    /\ elem_idx[m] <= Len(CurrentPart(m).value.items)
    /\ LET r == MatcherItem(m, matchers[m],
                            CurrentPart(m).value.items[elem_idx[m]],
                            CurrentPart(m).value)
       IN /\ matchers' = [matchers EXCEPT ![m] = r.matchers]
          /\ issues' = issues \o r.emit
    /\ elem_idx' = [elem_idx EXCEPT ![m] = @ + 1]
    /\ UNCHANGED <<asset, pc, item_idx, decl_idx, value, part_idx, config,
                   result>>

\* line 300 after the loop over items: the vector is assigned and dropped
ArrayEnd(m) ==
    /\ pc[m] = "items"
    /\ elem_idx[m] > Len(CurrentPart(m).value.items)
    /\ config' = [config EXCEPT ![m] = AssignMatcher(@, matchers[m])]
    /\ matchers' = [matchers EXCEPT ![m] = <<>>]
    /\ elem_idx' = [elem_idx EXCEPT ![m] = 0]
    /\ pc' = [pc EXCEPT ![m] = "decode"]
    /\ NextPart(m)
    /\ UNCHANGED <<asset, item_idx, decl_idx, value, result, issues>>

\* PartOtherKey reporting the key it does not know
PartOtherKeyReported(m) ==
    /\ AtPart(m)
    /\ CurrentPart(m).part = "KeyValue"
    /\ AsStr(CurrentPart(m).key).some
    /\ AsStr(CurrentPart(m).key).val \notin {"runtime", "matcher"}
    /\ issues' = Append(issues, InvalidConfig(m, MsgKey, CurrentPart(m).key))
    /\ NextPart(m)
    /\ UNCHANGED <<asset, pc, item_idx, decl_idx, value, elem_idx, matchers,
                   config, result>>

\* lines 242, 268: the key is a constant string other than "runtime" and
\* "matcher": neither `if` is taken
PartOtherKey(m) ==
    /\ AtPart(m)
    /\ CurrentPart(m).part = "KeyValue"
    /\ AsStr(CurrentPart(m).key).some
    /\ AsStr(CurrentPart(m).key).val \notin {"runtime", "matcher"}
    /\ NextPart(m)
    /\ UNCHANGED <<asset, pc, item_idx, decl_idx, value, elem_idx, matchers,
                   config, result, issues>>

\* line 318: every part is processed, the accumulator is returned
ReturnConfig(m) ==
    /\ pc[m] = "decode"
    /\ JsValueOf(m).tag = "Object"
    /\ part_idx[m] > Len(JsValueOf(m).parts)
    /\ Return(m, config[m])
    /\ UNCHANGED <<asset, item_idx, decl_idx, value, part_idx, elem_idx,
                   matchers, config, issues>>

-----------------------------------------------------------------------------

Next ==
    \E m \in Solo :
        \/ NotAModule(m)
        \/ BeginScan(m)
        \/ SkipItem(m)
        \/ EndDecls(m)
        \/ SkipDecl(m)
        \/ MissingInitializer(m)
        \/ EvalInit(m)
        \/ NoConfigExport(m)
        \/ NotObject(m)
        \/ PartSpread(m)
        \/ PartKeyNotStr(m)
        \/ PartRuntime(m)
        \/ PartMatcherScalar(m)
        \/ PartMatcherArray(m)
        \/ ArrayItem(m)
        \/ ArrayEnd(m)
        \/ PartOtherKey(m)
        \/ ReturnConfig(m)

Spec == Init /\ [][Next]_vars

-----------------------------------------------------------------------------
(* Two calls for distinct modules, run by separate workers: each has its    *)
(* own asset, cursors and accumulator; the emitted issues are shared        *)

Pair == {1, 2}

SingleConfig(v) == ModuleAsset(<<ExportVar(<<Declarator(Ident("config"), Some(v))>>)>>)

\* the modules decoded concurrently
ConcAssets ==
    {NotEcmascript,
     ModuleAsset(<<LocalVar(<<Declarator(Ident("config"), Some(EdgeObject))>>),
                   ExportFn("config")>>),
     ModuleAsset(<<ExportVar(<<Declarator(Ident("other"), Some(EdgeObject))>>),
                   ExportVar(<<Declarator(Ident("config"), None),
                               Declarator(Ident("config"), Some(EdgeObject))>>)>>),
     SingleConfig(Unknown),
     SingleConfig(Object(<<Spread(Unknown),
                           KeyValue(Str("matcher"), Array(<<Num(42), Str("/a")>>))>>)),
     SingleConfig(Object(<<KeyValue(Unknown, Str("edge")),
                           KeyValue(Str("matcher"), Num(42))>>)),
     SingleConfig(Object(<<KeyValue(Str("runtime"), Str("deno")),
                           KeyValue(Str("regions"), Str("edge"))>>)),
     SingleConfig(Object(<<KeyValue(Str("matcher"), Array(<<Num(42), Num(42)>>)),
                           KeyValue(Str("runtime"), Unknown)>>))}

InitConc ==
    /\ asset \in [Pair -> ConcAssets]
    /\ pc = [m \in Pair |-> "start"]
    /\ item_idx = [m \in Pair |-> 0]
    /\ decl_idx = [m \in Pair |-> 0]
    /\ value = [m \in Pair |-> None]
    /\ part_idx = [m \in Pair |-> 0]
    /\ elem_idx = [m \in Pair |-> 0]
    /\ matchers = [m \in Pair |-> <<>>]
    /\ config = [m \in Pair |-> DefaultConfig]
    /\ result = [m \in Pair |-> None]
    /\ issues = <<>>

NextConc ==
    \E m \in Pair :
        \/ NotAModule(m)
        \/ BeginScan(m)
        \/ SkipItem(m)
        \/ EndDecls(m)
        \/ SkipDecl(m)
        \/ MissingInitializer(m)
        \/ EvalInit(m)
        \/ NoConfigExport(m)
        \/ NotObject(m)
        \/ PartSpread(m)
        \/ PartKeyNotStr(m)
        \/ PartRuntime(m)
        \/ PartMatcherScalar(m)
        \/ PartMatcherArray(m)
        \/ ArrayItem(m)
        \/ ArrayEnd(m)
        \/ PartOtherKey(m)
        \/ ReturnConfig(m)

SpecConc == InitConc /\ [][NextConc]_vars

-----------------------------------------------------------------------------
(* Vocabulary of the properties: what the text of the specification says    *)
(* about values, parts and issues                                           *)

Done(m) == pc[m] = "done"

\* the issues of module m, in emission order
IssuesOf(m) == SelectSeq(issues, LAMBDA e : e.ident = m)

\* the issues of module m that the Value Decoder emitted
DecoderIssues(m) == SelectSeq(issues, LAMBDA e : e.ident = m /\ e.detail # MsgInitializer)

\* the issues of module m that the Config Locator emitted
LocatorIssues(m) == SelectSeq(issues, LAMBDA e : e.ident = m /\ e.detail = MsgInitializer)

IsStr(v) == v.tag = "Constant" /\ v.const.kind = "Str"

KeyIs(p, k) == p.part = "KeyValue" /\ IsStr(p.key) /\ p.key.const.str = k

ValidRuntimeNames == {"edge", "experimental-edge", "nodejs"}

ValidRuntimePart(p) ==
    KeyIs(p, "runtime") /\ IsStr(p.value) /\ p.value.const.str \in ValidRuntimeNames

\* the runtime a valid runtime name stands for
RuntimeNamed(s) == IF s = "nodejs" THEN "NodeJs" ELSE "Edge"

\* the constant strings among items, in their order
StringsOf(items) ==
    LET strs == SelectSeq(items, IsStr)
    IN [i \in 1..Len(strs) |-> strs[i].const.str]

\* the number of items that are not constant strings
NonStrings(items) == Len(items) - Len(SelectSeq(items, IsStr))

\* the object under decoding by m, and the part m's cursor is at
Decoding(m) == pc[m] \in {"decode", "items"} /\ value[m].val.tag = "Object"

PartAt(m) == value[m].val.parts[part_idx[m]]

\* m is about to process a part, and the step completes that part
CompletesPart(m) ==
    /\ pc[m] = "decode" /\ value[m].val.tag = "Object"
    /\ part_idx[m] <= Len(value[m].val.parts)
    /\ part_idx'[m] = part_idx[m] + 1

-----------------------------------------------------------------------------
(* C1: accumulate-errors: every part of an Object is processed in source    *)
(* order and an invalid part never stops the decoding of later parts; when  *)
(* an object contains an invalid part (spread, non-constant key, invalid    *)
(* runtime, invalid matcher) followed or preceded by a valid `runtime` or   *)
(* `matcher` part, the valid part is still applied to the returned record;  *)
(* a spread followed by runtime "edge" yields {Edge, None} with exactly one *)
(* issue.                                                                   *)

\* a matcher part that assigns a list: a string, or an array (whose items
\* that are not strings are dropped)
AssigningMatcherPart(p) == KeyIs(p, "matcher") /\ (IsStr(p.value) \/ p.value.tag = "Array")

ValidMatcherPart(p) ==
    /\ KeyIs(p, "matcher")
    /\ \/ IsStr(p.value)
       \/ p.value.tag = "Array" /\ Len(SelectSeq(p.value.items, IsStr)) = Len(p.value.items)

InvalidPart(p) ==
    \/ p.part = "Spread"
    \/ p.part = "KeyValue" /\ ~IsStr(p.key)
    \/ KeyIs(p, "runtime") /\ ~ValidRuntimePart(p)
    \/ KeyIs(p, "matcher") /\ ~ValidMatcherPart(p)

ValidPartsSurviveInvalidOnes ==
    \A m \in DOMAIN pc :
        (/\ Done(m) /\ value[m].some /\ value[m].val.tag = "Object"
         /\ \E i \in 1..Len(value[m].val.parts) : InvalidPart(value[m].val.parts[i])) =>
            LET parts == value[m].val.parts
                n == Len(parts)
            IN /\ part_idx[m] = n + 1
               /\ \A i \in 1..n :
                     (/\ ValidRuntimePart(parts[i])
                      /\ \A j \in (i + 1)..n : ~ValidRuntimePart(parts[j])) =>
                         result[m].val.runtime = RuntimeNamed(parts[i].value.const.str)
               /\ \A i \in 1..n :
                     (/\ ValidMatcherPart(parts[i])
                      /\ \A j \in (i + 1)..n : ~AssigningMatcherPart(parts[j])) =>
                         result[m].val.matcher =
                             Some(IF IsStr(parts[i].value)
                                  THEN <<parts[i].value.const.str>>
                                  ELSE StringsOf(parts[i].value.items))
               /\ parts = <<Spread(Unknown), KeyValue(Str("runtime"), Str("edge"))>> =>
                     /\ result[m] = Some([runtime |-> "Edge", matcher |-> None])
                     /\ Len(issues) = 1

-----------------------------------------------------------------------------
(* C2: when the value of the `config` initializer is not an Object, the     *)
(* decoder returns the default record {NodeJs, None} and emits exactly one  *)
(* issue, "must be a valid object literal".                                 *)

NonObjectYieldsDefault ==
    \A m \in DOMAIN pc :
        (Done(m) /\ value[m].some /\ value[m].val.tag # "Object") =>
            /\ result[m] = Some([runtime |-> "NodeJs", matcher |-> None])
            /\ Len(DecoderIssues(m)) = 1
            /\ DecoderIssues(m)[1].detail = MsgObject

NonObjectDecoded ==
    \E m \in DOMAIN pc :
        /\ Done(m) /\ value[m] = Some(Unknown)
        /\ result[m] = Some(DefaultConfig)
        /\ Len(issues) = 1

-----------------------------------------------------------------------------
(* C3: a `runtime` part whose value is the constant string "edge" or        *)
(* "experimental-edge" sets the runtime to Edge, "nodejs" sets it to        *)
(* NodeJs, and in these three cases no issue is emitted.                    *)

ValidRuntimeApplied ==
    [][\A m \in DOMAIN pc :
          (CompletesPart(m) /\ ValidRuntimePart(PartAt(m))) =>
              /\ config'[m].runtime = RuntimeNamed(PartAt(m).value.const.str)
              /\ issues' = issues]_vars

ExperimentalEdgeApplied ==
    \E m \in DOMAIN pc :
        /\ Decoding(m) /\ part_idx[m] = 2
        /\ value[m].val.parts[1] = KeyValue(Str("runtime"), Str("experimental-edge"))
        /\ config[m].runtime = "Edge"
        /\ issues = <<>>

-----------------------------------------------------------------------------
(* C4: every `runtime` part whose value is not one of the constant strings  *)
(* "edge", "experimental-edge", "nodejs" (another string, a constant that   *)
(* is not a string, or a non-constant value) emits exactly one issue and    *)
(* leaves the runtime field unchanged.                                      *)

InvalidRuntimePart(p) == KeyIs(p, "runtime") /\ ~ValidRuntimePart(p)

InvalidRuntimeReported ==
    [][\A m \in DOMAIN pc :
          (CompletesPart(m) /\ InvalidRuntimePart(PartAt(m))) =>
              /\ Len(issues') = Len(issues) + 1
              /\ config'[m].runtime = config[m].runtime]_vars

-----------------------------------------------------------------------------
(* C5: a `matcher` part with a constant string s sets matcher to Some([s]); *)
(* with an Array it sets matcher to Some of the constant-string items in    *)
(* their original order, and emits exactly one issue per item that is not a *)
(* constant string.                                                         *)

\* the part m has just completed
LastPart(m) == value[m].val.parts[part_idx[m] - 1]

Completed(m) ==
    /\ pc[m] \in {"decode", "items", "done"}
    /\ value[m].some
    /\ value[m].val.tag = "Object"
    /\ part_idx[m] > 1

MatcherListAssigned ==
    \A m \in DOMAIN pc :
        (Completed(m) /\ KeyIs(LastPart(m), "matcher")) =>
            /\ IsStr(LastPart(m).value) =>
                  config[m].matcher = Some(<<LastPart(m).value.const.str>>)
            /\ LastPart(m).value.tag = "Array" =>
                  config[m].matcher = Some(StringsOf(LastPart(m).value.items))

\* the steps of a matcher part: a string emits nothing; of an array, each
\* item that is not a constant string emits one issue, each other step none
MatcherIssuesPerItem ==
    \A m \in DOMAIN pc :
        /\ (CompletesPart(m) /\ KeyIs(PartAt(m), "matcher") /\ IsStr(PartAt(m).value))
               => issues' = issues
        /\ (pc[m] = "decode" /\ pc'[m] = "items") => issues' = issues
        /\ (pc[m] = "items" /\ pc'[m] = "decode") => issues' = issues
        /\ (pc[m] = "items" /\ elem_idx'[m] = elem_idx[m] + 1) =>
               LET item == PartAt(m).value.items[elem_idx[m]]
               IN IF IsStr(item)
                  THEN issues' = issues
                  ELSE /\ Len(issues') = Len(issues) + 1
                       /\ issues'[Len(issues')].ident = m
                       /\ issues'[Len(issues')].detail = MsgMatcher
        /\ (pc[m] = "items" /\ pc'[m] = "items") =>
               /\ elem_idx'[m] = elem_idx[m] + 1
               /\ elem_idx[m] <= Len(PartAt(m).value.items)

MatcherDecoded == []MatcherListAssigned /\ [][MatcherIssuesPerItem]_vars

MatcherArrayDecoded ==
    \E m \in DOMAIN pc :
        /\ Completed(m)
        /\ LastPart(m) = KeyValue(Str("matcher"), Array(<<Str("/a"), Num(42)>>))
        /\ config[m].matcher = Some(<<"/a">>)
        /\ Len(issues) = 1

-----------------------------------------------------------------------------
(* C6: a `matcher` part whose value is neither a constant string nor an     *)
(* Array emits one issue and leaves matcher at its prior value.             *)

InvalidMatcherShape(p) ==
    KeyIs(p, "matcher") /\ ~IsStr(p.value) /\ p.value.tag # "Array"

InvalidMatcherKeepsPrior ==
    [][\A m \in DOMAIN pc :
          (CompletesPart(m) /\ InvalidMatcherShape(PartAt(m))) =>
              /\ Len(issues') = Len(issues) + 1
              /\ config'[m].matcher = config[m].matcher]_vars

-----------------------------------------------------------------------------
(* C7: among the top-level exported variable declarators named `config`,    *)
(* only the first in source order determines the result: without            *)
(* initializer it emits exactly one issue and the result is the default     *)
(* record whatever later `config` declarators contain; with an initializer, *)
(* later `config` declarators are ignored and emit no issue.                *)

RECURSIVE ExportedDeclarators(_)
\* the declarators of the exported variable declarations, in source order
ExportedDeclarators(body) ==
    IF body = <<>> THEN <<>>
    ELSE (IF Head(body).item = "ExportVar" THEN Head(body).decls ELSE <<>>)
         \o ExportedDeclarators(Tail(body))

NamedConfig(d) == d.name.pat = "Ident" /\ d.name.sym = "config"

ConfigExports(m) == SelectSeq(ExportedDeclarators(asset[m].body), NamedConfig)

HasInit(d) == d.init.some

-----------------------------------------------------------------------------
(* C8: repeated keys resolve by last occurrence: the returned runtime is    *)
(* the one given by the last `runtime` part, the returned matcher is the    *)
(* list decoded from the last `matcher` part, and no issue is emitted for   *)
(* the duplication itself.                                                  *)

\* the list a matcher value decodes to
ListDecodedFrom(v) ==
    IF IsStr(v) THEN <<v.const.str>>
    ELSE IF v.tag = "Array" THEN StringsOf(v.items)
    ELSE <<>>

\* the indices of the parts with constant key k
PartsKeyed(parts, k) == {i \in 1..Len(parts) : KeyIs(parts[i], k)}

Max(S) == CHOOSE x \in S : \A y \in S : y <= x

\* a part that the decoder accepts without any issue
CleanPart(p) ==
    /\ p.part = "KeyValue"
    /\ IsStr(p.key)
    /\ KeyIs(p, "runtime") => ValidRuntimePart(p)
    /\ KeyIs(p, "matcher") =>
          \/ IsStr(p.value)
          \/ p.value.tag = "Array" /\ NonStrings(p.value.items) = 0

LastOccurrenceWins ==
    \A m \in DOMAIN pc :
        (Done(m) /\ value[m].some /\ value[m].val.tag = "Object") =>
            LET parts == value[m].val.parts
                rs == PartsKeyed(parts, "runtime")
                ms == PartsKeyed(parts, "matcher")
            IN /\ (rs # {} /\ ValidRuntimePart(parts[Max(rs)])) =>
                      result[m].val.runtime = RuntimeNamed(parts[Max(rs)].value.const.str)
               /\ ms # {} =>
                      result[m].val.matcher = Some(ListDecodedFrom(parts[Max(ms)].value))
               /\ (\A i \in 1..Len(parts) : CleanPart(parts[i])) =>
                      DecoderIssues(m) = <<>>

RepeatedKeysDecoded ==
    \E m \in DOMAIN pc :
        /\ Done(m)
        /\ value[m] = Some(Object(<<KeyValue(Str("runtime"), Str("edge")),
                                    KeyValue(Str("runtime"), Str("nodejs"))>>))
        /\ result[m] = Some([runtime |-> "NodeJs", matcher |-> None])
        /\ issues = <<>>

-----------------------------------------------------------------------------
(* C9: a Spread part, and a KeyValue part whose key does not resolve to a   *)
(* constant string, each emit exactly one issue and leave both fields of    *)
(* the record unchanged.                                                    *)

UnsupportedPart(p) == p.part = "Spread" \/ (p.part = "KeyValue" /\ ~IsStr(p.key))

UnsupportedPartSkipped ==
    [][\A m \in DOMAIN pc :
          (CompletesPart(m) /\ UnsupportedPart(PartAt(m))) =>
              /\ Len(issues') = Len(issues) + 1
              /\ issues'[Len(issues')].ident = m
              /\ issues'[Len(issues')].detail =
                     (IF PartAt(m).part = "Spread" THEN MsgSpread ELSE MsgKey)
              /\ config'[m] = config[m]]_vars

NonConstantKeySkipped ==
    \E m \in DOMAIN pc :
        /\ Completed(m)
        /\ part_idx[m] = 3
        /\ value[m].val.parts[1] = KeyValue(Str("runtime"), Str("edge"))
        /\ value[m].val.parts[2] = KeyValue(Unknown, Str("edge"))
        /\ config[m] = [runtime |-> "Edge", matcher |-> None]
        /\ Len(issues) = 1
        /\ issues[1].detail = MsgKey

-----------------------------------------------------------------------------
(* C10: an Object whose parts all have constant-string keys other than      *)
(* `runtime` and `matcher` (the empty object included) decodes to the       *)
(* default record with zero issues; such a part anywhere in an object       *)
(* changes no field and emits no issue.                                     *)

IgnoredPart(p) ==
    p.part = "KeyValue" /\ IsStr(p.key) /\ p.key.const.str \notin {"runtime", "matcher"}

OnlyIgnoredKeysYieldDefault ==
    \A m \in DOMAIN pc :
        (/\ Done(m) /\ value[m].some /\ value[m].val.tag = "Object"
         /\ \A i \in 1..Len(value[m].val.parts) : IgnoredPart(value[m].val.parts[i])) =>
            /\ result[m] = Some([runtime |-> "NodeJs", matcher |-> None])
            /\ issues = <<>>

IgnoredPartChangesNothing ==
    \A m \in DOMAIN pc :
        (CompletesPart(m) /\ IgnoredPart(PartAt(m))) =>
            /\ config'[m] = config[m]
            /\ issues' = issues

OtherKeysIgnored == []OnlyIgnoredKeysYieldDefault /\ [][IgnoredPartChangesNothing]_vars

OtherKeyAfterRuntime ==
    \E m \in DOMAIN pc :
        /\ Done(m)
        /\ value[m] = Some(Object(<<KeyValue(Str("runtime"), Str("edge")),
                                    KeyValue(Str("regions"), Array(<<Str("/a")>>))>>))
        /\ result[m] = Some([runtime |-> "Edge", matcher |-> None])
        /\ issues = <<>>

-----------------------------------------------------------------------------
(* A call run alone, as a function of its input: the record it returns and  *)
(* the issues it emits, in order                                            *)

RECURSIVE SoloItems(_, _, _, _)
\* `for item in items` (lines 283-293) from item n on, st = [matchers, emit]
SoloItems(id, v, n, st) ==
    IF n > Len(v.items) THEN st
    ELSE LET r == MatcherItem(id, st.matchers, v.items[n], v)
         IN SoloItems(id, v, n + 1,
                      [matchers |-> r.matchers, emit |-> st.emit \o r.emit])

\* the body of `for part in parts` (lines 235-309), st = [config, emit]
SoloPart(id, obj, st, p) ==
    IF p.part = "Spread"
    THEN [st EXCEPT !.emit = @ \o <<InvalidConfig(id, MsgSpread, obj)>>]
    ELSE IF ~AsStr(p.key).some
    THEN [st EXCEPT !.emit = @ \o <<InvalidConfig(id, MsgKey, p.key)>>]
    ELSE IF AsStr(p.key).val = "runtime"
    THEN LET r == RuntimeArm(id, st.config, p.value)
         IN [config |-> r.config, emit |-> st.emit \o r.emit]
    ELSE IF AsStr(p.key).val = "matcher"
    THEN LET r == IF p.value.tag = "Array"
                  THEN SoloItems(id, p.value, 1, [matchers |-> <<>>, emit |-> <<>>])
                  ELSE MatcherScalar(id, p.value)
         IN [config |-> AssignMatcher(st.config, r.matchers),
             emit |-> st.emit \o r.emit]
    ELSE st

RECURSIVE SoloParts(_, _, _, _)
\* `for part in parts` (line 234) from part n on
SoloParts(id, obj, n, st) ==
    IF n > Len(obj.parts) THEN st
    ELSE SoloParts(id, obj, n + 1, SoloPart(id, obj, st, obj.parts[n]))

\* parse_config_from_js_value (lines 219-319)
SoloValue(id, v) ==
    IF v.tag = "Object"
    THEN SoloParts(id, v, 1, [config |-> DefaultConfig, emit |-> <<>>])
    ELSE [config |-> DefaultConfig, emit |-> <<InvalidConfig(id, MsgObject, v)>>]

RECURSIVE SoloScan(_, _, _, _, _)
\* the two loops of lines 182-213 from declarator j of item i on; emit holds
\* the issues of the declarators passed
SoloScan(id, body, i, j, emit) ==
    IF i > Len(body) THEN [config |-> DefaultConfig, emit |-> emit]
    ELSE IF ~AsExportedVar(body[i]).some THEN SoloScan(id, body, i + 1, 1, emit)
    ELSE IF j > Len(AsExportedVar(body[i]).val) THEN SoloScan(id, body, i + 1, 1, emit)
    ELSE LET d == AsExportedVar(body[i]).val[j]
         IN IF ~IsConfigIdent(d) THEN SoloScan(id, body, i, j + 1, emit)
            ELSE IF d.init.some
            THEN LET r == SoloValue(id, d.init.val)
                 IN [config |-> r.config, emit |-> emit \o r.emit]
            ELSE SoloScan(id, body, i, j + 1, Append(emit, InitializerIssue(id)))

\* parse_config_from_source (lines 169-217)
SoloSource(id, a) ==
    IF a.ecmascript /\ a.parse = "Module"
    THEN SoloScan(id, a.body, 1, 1, <<>>)
    ELSE [config |-> DefaultConfig, emit |-> <<>>]

-----------------------------------------------------------------------------
(* C11: concurrent decodes of distinct modules share only the diagnostics   *)
(* sink: in every interleaving, each module's returned record and the       *)
(* ordered sequence of its own issues in the sink are those of a decode of  *)
(* the same input run alone, and no issue is lost or duplicated.            *)

IsPrefix(p, q) == Len(p) <= Len(q) /\ \A i \in 1..Len(p) : p[i] = q[i]

\* the number of entries of the sink equal to e
Copies(e) == Cardinality({i \in 1..Len(issues) : issues[i] = e})

\* the number of entries of q equal to e
CopiesIn(q, e) == Cardinality({i \in 1..Len(q) : q[i] = e})

\* a call run alone (Spec) returns SoloSource's record and emits its issues
AloneIsSoloSource ==
    \A m \in DOMAIN pc :
        Done(m) => /\ result[m] = Some(SoloSource(m, asset[m]).config)
                   /\ issues = SoloSource(m, asset[m]).emit

ConcurrentDecodesAreSolo ==
    /\ \A m \in DOMAIN pc :
          LET solo == SoloSource(m, asset[m])
          IN /\ IsPrefix(IssuesOf(m), solo.emit)
             /\ Done(m) =>
                   /\ result[m] = Some(solo.config)
                   /\ IssuesOf(m) = solo.emit
    /\ (\A m \in DOMAIN pc : Done(m)) =>
          /\ Len(issues) = Len(SoloSource(1, asset[1]).emit)
                           + Len(SoloSource(2, asset[2]).emit)
          /\ \A i \in 1..Len(issues) :
                Copies(issues[i]) =
                    CopiesIn(SoloSource(issues[i].ident, asset[issues[i].ident]).emit,
                             issues[i])

\* the issues of the two modules are interleaved in the sink and both calls
\* have returned
InterleavedIssues ==
    /\ DOMAIN pc = Pair
    /\ Done(1) /\ Done(2)
    /\ Len(issues) >= 3
    /\ issues[1].ident = 1
    /\ issues[2].ident = 2
    /\ issues[3].ident = 1
    /\ result[1] # result[2]

-----------------------------------------------------------------------------
(* C12: only a top-level `export` variable declaration binding a plain      *)
(* identifier literally named `config` is located; when the module has none *)
(* (no such export, a `config` that is not exported, exported variables     *)
(* with other names, or an asset that is not a successfully parsed          *)
(* ECMAScript module), the result is the default record {NodeJs, None} and  *)
(* zero issues are emitted.                                                 *)

ParsedModule(m) == asset[m].ecmascript /\ asset[m].parse = "Module"

NoConfigExportFound(m) == ~ParsedModule(m) \/ ConfigExports(m) = <<>>

NoConfigYieldsDefault ==
    \A m \in DOMAIN pc :
        NoConfigExportFound(m) =>
            /\ value[m] = None
            /\ IssuesOf(m) = <<>>
            /\ Done(m) => result[m] = Some([runtime |-> "NodeJs", matcher |-> None])

\* a module whose only `config`s are a variable that is not exported and an
\* exported function has been scanned to its end
OtherConfigsPassedOver ==
    \E m \in DOMAIN pc :
        /\ Done(m)
        /\ asset[m] = ModuleAsset(<<LocalVar(<<Declarator(Ident("config"),
                                                          Some(EdgeObject))>>),
                                    ExportFn("config")>>)
        /\ item_idx[m] = 3
        /\ result[m] = Some(DefaultConfig)
        /\ issues = <<>>

-----------------------------------------------------------------------------
(* C13: field independence: processing a `runtime` part, valid or not,      *)
(* never changes the record's matcher, and processing a `matcher` part,     *)
(* valid or not, never changes the record's runtime; hence the returned     *)
(* runtime depends only on the object's `runtime` parts and the returned    *)
(* matcher only on its `matcher` parts.                                     *)

\* m's cursor is at a part with constant key k
ProcessingKey(m, k) ==
    /\ pc[m] \in {"decode", "items"}
    /\ value[m].val.tag = "Object"
    /\ part_idx[m] <= Len(value[m].val.parts)
    /\ KeyIs(PartAt(m), k)

FieldsStepIndependently ==
    \A m \in DOMAIN pc :
        /\ ProcessingKey(m, "runtime") => config'[m].matcher = config[m].matcher
        /\ ProcessingKey(m, "matcher") => config'[m].runtime = config[m].runtime

\* the returned runtime as a function of the runtime parts alone, the
\* returned matcher as a function of the matcher parts alone
FieldsDependOnOwnParts ==
    \A m \in DOMAIN pc :
        (Done(m) /\ value[m].some /\ value[m].val.tag = "Object") =>
            LET parts == value[m].val.parts
                valid == {i \in PartsKeyed(parts, "runtime") : ValidRuntimePart(parts[i])}
                ms == PartsKeyed(parts, "matcher")
            IN /\ result[m].val.runtime =
                      (IF valid = {} THEN "NodeJs"
                       ELSE RuntimeNamed(parts[Max(valid)].value.const.str))
               /\ result[m].val.matcher =
                      (IF ms = {} THEN None
                       ELSE Some(ListDecodedFrom(parts[Max(ms)].value)))

FieldIndependence == []FieldsDependOnOwnParts /\ [][FieldsStepIndependently]_vars

\* an invalid runtime part after a matcher part has left the matcher alone
MatcherKeptAcrossRuntime ==
    \E m \in DOMAIN pc :
        /\ Done(m)
        /\ value[m] = Some(Object(<<KeyValue(Str("matcher"), Str("/a")),
                                    KeyValue(Str("runtime"), Unknown)>>))
        /\ result[m] = Some([runtime |-> "NodeJs", matcher |-> Some(<<"/a">>)])
        /\ Len(issues) = 1

=============================================================================
